---------------------------- MODULE Spec2Model ----------------------------
(***************************************************************************)
(* Model of the staleness cache `Cache<T, const TTL: u64>` of              *)
(* programs/psylend-cpi/src/state/cache.rs.                                *)
(*                                                                         *)
(* One cache instance is driven by an arbitrary single-threaded caller     *)
(* that invokes its public methods in any order with any arguments.        *)
(* Slots are u64 in the source; the model keeps the machine-word           *)
(* behaviour on a word of SlotBits bits (all sums are taken modulo         *)
(* U64Modulus exactly where the source adds u64 values).  The #[repr(C)]   *)
(* layout of the struct is computed separately, for every value type.      *)
(***************************************************************************)
EXTENDS Integers, Sequences, FiniteSets, TLC

\* ------------------------------------------------------------------------
\* Bounds of the model
\* ------------------------------------------------------------------------

\* Width, in bits, of the model's unsigned slot word (u64 in the source).
SlotBits == 2

\* Largest payload value; the payload type T is modelled as 0..MaxValue.
MaxValue == 1

\* Largest TTL instantiation explored; TTL ranges over 0..MaxTTL.
MaxTTL == 2

\* Largest size, in bytes, of the value types whose struct layout is computed.
MaxTSize == 16

U64Modulus == 2 ^ SlotBits

Slots == 0 .. (U64Modulus - 1)

Values == 0 .. MaxValue

TTLs == 0 .. MaxTTL

\* Panic messages handed to expect / expect_mut by the caller.
Descriptions == {"reserve"}

\* ------------------------------------------------------------------------
\* State
\* ------------------------------------------------------------------------

VARIABLES
    cache,              \* the Cache struct: value, last_updated, invalidated, reserved
    TTL,                \* the const generic parameter of this instantiation
    overflow_checks,    \* build profile: does u64 `+=` panic on overflow (TRUE) or wrap (FALSE)
    aborted,            \* TRUE once a panic has unwound the caller
    call,               \* the most recent method call: name, arguments, cache before, result
    refreshed_value,    \* history: value given to the most recent refresh_as (or to new)
    written_value,      \* history: value most recently stored by new, refresh_as or a write through &mut T
    pending_invalidate, \* history: invalidate() was called and no refresh* call was made since
    expected_last_updated, \* history: slot of the last absolute set plus the deltas added since (U64Modulus: does not fit u64)
    layout              \* the #[repr(C)] layout of the struct for its value type, field by field

vars == <<cache, TTL, overflow_checks, aborted, call, refreshed_value, written_value, pending_invalidate,
          expected_last_updated, layout>>

\* ------------------------------------------------------------------------
\* u64 arithmetic
\* ------------------------------------------------------------------------

\* a - b on the unsigned word; equals the mathematical difference when a >= b,
\* the wrapped difference otherwise.
U64Sub(a, b) == IF a >= b THEN a - b ELSE a - b + U64Modulus

\* a + b on the unsigned word, as a wrapping build computes it.
U64Add(a, b) == (a + b) % U64Modulus

\* TRUE when a + b does not fit the unsigned word.
U64AddOverflows(a, b) == a + b >= U64Modulus

\* ------------------------------------------------------------------------
\* Results: Result<_, CacheInvalidError> and panics
\* ------------------------------------------------------------------------

\* Ok(x); val is <<>> for Ok(()) and <<v>> for a reference to the payload v.
Ok(val) == [kind |-> "Ok", msg |-> <<>>, val |-> val]

\* Err(CacheInvalidError::kind { msg }).
Err(kind, msg) == [kind |-> kind, msg |-> msg, val |-> <<>>]

\* The panic raised by Result::expect: the description and the Debug of the error.
Panic(description, err) == [kind |-> "Panic", msg |-> <<description, err.kind, err.msg>>, val |-> <<>>]

\* ------------------------------------------------------------------------
\* The methods of Cache, as functions of the struct
\* ------------------------------------------------------------------------

\* The all-zero bit pattern of the struct (Zeroable::zeroed); the zero of T is 0.
zeroed == [value |-> 0, invalidated |-> 0, last_updated |-> 0, reserved |-> <<0, 0, 0, 0, 0, 0, 0>>]

\* Mutant of new: the constructor leaves the cache marked invalid.
new_invalidated(value, current_slot) ==
    [value |-> value, invalidated |-> 1, last_updated |-> current_slot, reserved |-> <<0, 0, 0, 0, 0, 0, 0>>]

new(value, current_slot) ==
    [value |-> value, invalidated |-> 0, last_updated |-> current_slot, reserved |-> <<0, 0, 0, 0, 0, 0, 0>>]

\* "last_updated = {}, time_to_live = {}, current_slot = {}"
time_msg(c, ttl, current_slot) == <<c.last_updated, ttl, current_slot>>

\* Mutant of validate_fresh: the age limit is exclusive (>= instead of >).
validate_fresh_strict_ttl(c, ttl, current_slot) ==
    IF current_slot < c.last_updated
    THEN Err("TooNew", time_msg(c, ttl, current_slot))
    ELSE IF U64Sub(current_slot, c.last_updated) >= ttl
    THEN Err("Expired", time_msg(c, ttl, current_slot))
    ELSE IF c.invalidated # 0
    THEN Err("Invalidated", <<>>)
    ELSE Ok(<<>>)

\* Mutant of validate_fresh: the age test is written as a u64 addition,
\* current_slot > last_updated + TTL, which wraps near the top of the word.
validate_fresh_additive(c, ttl, current_slot) ==
    IF current_slot < c.last_updated
    THEN Err("TooNew", time_msg(c, ttl, current_slot))
    ELSE IF current_slot > U64Add(c.last_updated, ttl)
    THEN Err("Expired", time_msg(c, ttl, current_slot))
    ELSE IF c.invalidated # 0
    THEN Err("Invalidated", <<>>)
    ELSE Ok(<<>>)

\* Mutant of validate_fresh: the invalidated flag is never consulted.
validate_fresh_ignoring_flag(c, ttl, current_slot) ==
    IF current_slot < c.last_updated
    THEN Err("TooNew", time_msg(c, ttl, current_slot))
    ELSE IF U64Sub(current_slot, c.last_updated) > ttl
    THEN Err("Expired", time_msg(c, ttl, current_slot))
    ELSE Ok(<<>>)

\* Mutant of validate_fresh: the invalidated flag is tested before the age.
validate_fresh_flag_first(c, ttl, current_slot) ==
    IF current_slot < c.last_updated
    THEN Err("TooNew", time_msg(c, ttl, current_slot))
    ELSE IF c.invalidated # 0
    THEN Err("Invalidated", <<>>)
    ELSE IF U64Sub(current_slot, c.last_updated) > ttl
    THEN Err("Expired", time_msg(c, ttl, current_slot))
    ELSE Ok(<<>>)

validate_fresh(c, ttl, current_slot) ==
    IF current_slot < c.last_updated
    THEN Err("TooNew", time_msg(c, ttl, current_slot))
    ELSE IF U64Sub(current_slot, c.last_updated) > ttl
    THEN Err("Expired", time_msg(c, ttl, current_slot))
    ELSE IF c.invalidated # 0
    THEN Err("Invalidated", <<>>)
    ELSE Ok(<<>>)

\* The u64 subtractions a validate_fresh call evaluates, as <<minuend, subtrahend>>:
\* `current_slot - self.last_updated` is reached only past the TooNew return.
validate_fresh_subtractions(c, ttl, current_slot) ==
    IF current_slot < c.last_updated
    THEN {}
    ELSE {<<current_slot, c.last_updated>>}

\* Mutant of try_get: the value is handed out without the freshness check.
try_get_unchecked(c, ttl, current_slot) == Ok(<<c.value>>)

try_get(c, ttl, current_slot) ==
    LET r == validate_fresh(c, ttl, current_slot)
    IN  IF r.kind = "Ok" THEN Ok(<<c.value>>) ELSE r

try_get_mut(c, ttl, current_slot) ==
    LET r == validate_fresh(c, ttl, current_slot)
    IN  IF r.kind = "Ok" THEN Ok(<<c.value>>) ELSE r

expect(c, ttl, current_slot, description) ==
    LET r == try_get(c, ttl, current_slot)
    IN  IF r.kind = "Ok" THEN r ELSE Panic(description, r)

expect_mut(c, ttl, current_slot, description) ==
    LET r == try_get_mut(c, ttl, current_slot)
    IN  IF r.kind = "Ok" THEN r ELSE Panic(description, r)

get_stale(c) == Ok(<<c.value>>)

get_stale_mut(c) == Ok(<<c.value>>)

\* Mutant of write_through: handing out the mutable view advances the timestamp.
write_through_bumping(c, w) == [c EXCEPT !.value = w, !.last_updated = U64Add(c.last_updated, 1)]

\* Mutant of write_through: handing out the mutable view marks the cache valid.
write_through_revalidating(c, w) == [c EXCEPT !.value = w, !.invalidated = 0]

\* The caller stores w through the `&mut T` handed out by try_get_mut,
\* expect_mut or get_stale_mut (`&mut self.value`).
write_through(c, w) == [c EXCEPT !.value = w]

\* Mutant of refresh_as: the invalidated flag is left as it was.
refresh_as_keeping_flag(c, value, current_slot) ==
    [c EXCEPT !.value = value, !.last_updated = current_slot]

refresh_as(c, value, current_slot) ==
    [c EXCEPT !.value = value, !.invalidated = 0, !.last_updated = current_slot]

\* Mutant of invalidate: the flag byte is written with all bits set.
invalidate_all_bits(c) == [c EXCEPT !.invalidated = 255]

\* Mutant of invalidate: the flag is written with 0 instead of 1.
invalidate_clearing(c) == [c EXCEPT !.invalidated = 0]

invalidate(c) == [c EXCEPT !.invalidated = 1]

last_updated(c) == c.last_updated

\* Mutant of refresh: the invalidated flag is left as it was.
refresh_keeping_flag(c, current_slot) == [c EXCEPT !.last_updated = current_slot]

refresh(c, current_slot) ==
    [c EXCEPT !.invalidated = 0, !.last_updated = current_slot]

\* Mutant of refresh_additional: the invalidated flag is left as it was.
refresh_additional_keeping_flag(c, additional_slots, checks) ==
    IF checks /\ U64AddOverflows(c.last_updated, additional_slots)
    THEN c
    ELSE [c EXCEPT !.last_updated = U64Add(c.last_updated, additional_slots)]

\* `self.last_updated += additional_slots` panics on overflow in a build with
\* overflow checks (after invalidated was already cleared) and wraps otherwise.
refresh_additional_panics(c, additional_slots, checks) ==
    checks /\ U64AddOverflows(c.last_updated, additional_slots)

refresh_additional(c, additional_slots, checks) ==
    IF refresh_additional_panics(c, additional_slots, checks)
    THEN [c EXCEPT !.invalidated = 0]
    ELSE [c EXCEPT !.invalidated = 0, !.last_updated = U64Add(c.last_updated, additional_slots)]

\* Mutant of refresh_to: the slot is added to last_updated instead of stored.
refresh_to_accumulating(c, current_slot) ==
    [c EXCEPT !.invalidated = 0, !.last_updated = U64Add(c.last_updated, current_slot)]

\* Mutant of refresh_to: the invalidated flag is left as it was.
refresh_to_keeping_flag(c, current_slot) == [c EXCEPT !.last_updated = current_slot]

\* Mutant of refresh_to: the payload is reset along with the bookkeeping.
refresh_to_zeroing_value(c, current_slot) ==
    [c EXCEPT !.value = 0, !.invalidated = 0, !.last_updated = current_slot]

refresh_to(c, current_slot) ==
    [c EXCEPT !.invalidated = 0, !.last_updated = current_slot]

\* ------------------------------------------------------------------------
\* The #[repr(C)] layout of the struct
\* ------------------------------------------------------------------------

\* Alignments a value type can have.
Aligns == {1, 2, 4, 8, 16}

\* Value types by size and alignment; the size of a type is a multiple of its alignment.
ValueTypes == {T \in [size : 0 .. MaxTSize, align : Aligns] : T.size % T.align = 0}

\* The layout of the payload type of the cache instances explored (a u64-sized value).
U64Layout == [size |-> 8, align |-> 8]

\* The fields of Cache<T, TTL> in declaration order.
CacheFields(T) ==
    << [name |-> "value", size |-> T.size, align |-> T.align],
       [name |-> "last_updated", size |-> 8, align |-> 8],
       [name |-> "invalidated", size |-> 1, align |-> 1],
       [name |-> "_reserved", size |-> 7, align |-> 1] >>

\* n rounded up to a multiple of a.
AlignUp(n, a) == ((n + a - 1) \div a) * a

\* No field placed yet.
LayoutStart(T) ==
    [T |-> T, placed |-> 0, end |-> 0, align |-> 1, padding |-> 0, size |-> 0, done |-> FALSE]

\* repr(C): the next declared field goes to the first offset at or after the
\* end of the previous one that is a multiple of its alignment.
PlaceField(l) ==
    LET f == CacheFields(l.T)[l.placed + 1]
        offset == AlignUp(l.end, f.align)
    IN  [l EXCEPT !.placed = @ + 1,
                  !.end = offset + f.size,
                  !.align = IF f.align > @ THEN f.align ELSE @,
                  !.padding = @ + (offset - l.end)]

\* repr(C): the size of the struct is the end of the last field rounded up to
\* the largest field alignment.
FinishLayout(l) ==
    LET size == AlignUp(l.end, l.align)
    IN  [l EXCEPT !.size = size, !.padding = @ + (size - l.end), !.done = TRUE]

\* The complete layout of Cache<T, TTL>.
ReprC(T) == FinishLayout(PlaceField(PlaceField(PlaceField(PlaceField(LayoutStart(T))))))

\* ------------------------------------------------------------------------
\* Initial state: the cache right after Cache::new, or a zero-initialised
\* cache inside a zeroed record
\* ------------------------------------------------------------------------

Init ==
    /\ TTL \in TTLs
    /\ overflow_checks \in BOOLEAN
    /\ aborted = FALSE
    /\ \/ \E value \in Values, current_slot \in Slots :
             /\ cache = new(value, current_slot)
             /\ call = [op |-> "new", arg |-> <<value, current_slot>>, pre |-> new(value, current_slot), ret |-> Ok(<<>>)]
             /\ refreshed_value = value
             /\ written_value = value
             /\ expected_last_updated = current_slot
       \/ /\ cache = zeroed
          /\ call = [op |-> "zeroed", arg |-> <<>>, pre |-> zeroed, ret |-> Ok(<<>>)]
          /\ refreshed_value = 0
          /\ written_value = 0
          /\ expected_last_updated = 0
    /\ pending_invalidate = FALSE
    /\ layout = ReprC(U64Layout)

\* ------------------------------------------------------------------------
\* Actions: one per public method
\* ------------------------------------------------------------------------

ValidateFresh(current_slot) ==
    /\ ~aborted
    /\ call' = [op |-> "validate_fresh", arg |-> <<current_slot>>, pre |-> cache,
                ret |-> validate_fresh(cache, TTL, current_slot)]
    /\ UNCHANGED <<cache, TTL, overflow_checks, aborted, refreshed_value, written_value, pending_invalidate, expected_last_updated, layout>>

TryGet(current_slot) ==
    /\ ~aborted
    /\ call' = [op |-> "try_get", arg |-> <<current_slot>>, pre |-> cache,
                ret |-> try_get(cache, TTL, current_slot)]
    /\ UNCHANGED <<cache, TTL, overflow_checks, aborted, refreshed_value, written_value, pending_invalidate, expected_last_updated, layout>>

\* try_get_mut followed by the caller's store of w through the returned view.
TryGetMut(current_slot, w) ==
    LET r == try_get_mut(cache, TTL, current_slot)
    IN  /\ ~aborted
        /\ IF r.kind = "Ok"
           THEN /\ cache' = write_through(cache, w)
                /\ written_value' = w
                /\ call' = [op |-> "try_get_mut", arg |-> <<current_slot, w>>, pre |-> cache, ret |-> r]
           ELSE /\ UNCHANGED <<cache, written_value>>
                /\ call' = [op |-> "try_get_mut", arg |-> <<current_slot>>, pre |-> cache, ret |-> r]
        /\ UNCHANGED <<TTL, overflow_checks, aborted, refreshed_value, pending_invalidate, expected_last_updated, layout>>

Expect(current_slot, description) ==
    LET r == expect(cache, TTL, current_slot, description)
    IN  /\ ~aborted
        /\ call' = [op |-> "expect", arg |-> <<current_slot>>, pre |-> cache, ret |-> r]
        /\ aborted' = (r.kind = "Panic")
        /\ UNCHANGED <<cache, TTL, overflow_checks, refreshed_value, written_value, pending_invalidate, expected_last_updated, layout>>

\* expect_mut followed by the caller's store of w through the returned view.
ExpectMut(current_slot, description, w) ==
    LET r == expect_mut(cache, TTL, current_slot, description)
    IN  /\ ~aborted
        /\ aborted' = (r.kind = "Panic")
        /\ IF r.kind = "Ok"
           THEN /\ cache' = write_through(cache, w)
                /\ written_value' = w
                /\ call' = [op |-> "expect_mut", arg |-> <<current_slot, w>>, pre |-> cache, ret |-> r]
           ELSE /\ UNCHANGED <<cache, written_value>>
                /\ call' = [op |-> "expect_mut", arg |-> <<current_slot>>, pre |-> cache, ret |-> r]
        /\ UNCHANGED <<TTL, overflow_checks, refreshed_value, pending_invalidate, expected_last_updated, layout>>

GetStale ==
    /\ ~aborted
    /\ call' = [op |-> "get_stale", arg |-> <<>>, pre |-> cache, ret |-> get_stale(cache)]
    /\ UNCHANGED <<cache, TTL, overflow_checks, aborted, refreshed_value, written_value, pending_invalidate, expected_last_updated, layout>>

\* get_stale_mut followed by the caller's store of w through the returned view.
GetStaleMut(w) ==
    /\ ~aborted
    /\ cache' = write_through(cache, w)
    /\ written_value' = w
    /\ call' = [op |-> "get_stale_mut", arg |-> <<w>>, pre |-> cache, ret |-> get_stale_mut(cache)]
    /\ UNCHANGED <<TTL, overflow_checks, aborted, refreshed_value, pending_invalidate, expected_last_updated, layout>>

RefreshAs(value, current_slot) ==
    /\ ~aborted
    /\ cache' = refresh_as(cache, value, current_slot)
    /\ refreshed_value' = value
    /\ written_value' = value
    /\ pending_invalidate' = FALSE
    /\ expected_last_updated' = current_slot
    /\ call' = [op |-> "refresh_as", arg |-> <<value, current_slot>>, pre |-> cache, ret |-> Ok(<<>>)]
    /\ UNCHANGED <<TTL, overflow_checks, aborted, layout>>

Invalidate ==
    /\ ~aborted
    /\ cache' = invalidate(cache)
    /\ pending_invalidate' = TRUE
    /\ call' = [op |-> "invalidate", arg |-> <<>>, pre |-> cache, ret |-> Ok(<<>>)]
    /\ UNCHANGED <<TTL, overflow_checks, aborted, refreshed_value, written_value, expected_last_updated, layout>>

LastUpdated ==
    /\ ~aborted
    /\ call' = [op |-> "last_updated", arg |-> <<>>, pre |-> cache, ret |-> Ok(<<last_updated(cache)>>)]
    /\ UNCHANGED <<cache, TTL, overflow_checks, aborted, refreshed_value, written_value, pending_invalidate, expected_last_updated, layout>>

Refresh(current_slot) ==
    /\ ~aborted
    /\ cache' = refresh(cache, current_slot)
    /\ pending_invalidate' = FALSE
    /\ expected_last_updated' = current_slot
    /\ call' = [op |-> "refresh", arg |-> <<current_slot>>, pre |-> cache, ret |-> Ok(<<>>)]
    /\ UNCHANGED <<TTL, overflow_checks, aborted, refreshed_value, written_value, layout>>

RefreshAdditional(additional_slots) ==
    LET panics == refresh_additional_panics(cache, additional_slots, overflow_checks)
    IN  /\ ~aborted
        /\ cache' = refresh_additional(cache, additional_slots, overflow_checks)
        /\ aborted' = panics
        /\ pending_invalidate' = FALSE
        /\ expected_last_updated' =
               IF panics THEN expected_last_updated
               ELSE IF expected_last_updated + additional_slots >= U64Modulus THEN U64Modulus
               ELSE expected_last_updated + additional_slots
        /\ call' = [op |-> "refresh_additional", arg |-> <<additional_slots>>, pre |-> cache,
                    ret |-> IF panics
                            THEN [kind |-> "Panic", msg |-> <<"attempt to add with overflow">>, val |-> <<>>]
                            ELSE Ok(<<>>)]
        /\ UNCHANGED <<TTL, overflow_checks, refreshed_value, written_value, layout>>

RefreshTo(current_slot) ==
    /\ ~aborted
    /\ cache' = refresh_to(cache, current_slot)
    /\ pending_invalidate' = FALSE
    /\ expected_last_updated' = current_slot
    /\ call' = [op |-> "refresh_to", arg |-> <<current_slot>>, pre |-> cache, ret |-> Ok(<<>>)]
    /\ UNCHANGED <<TTL, overflow_checks, aborted, refreshed_value, written_value, layout>>

Next ==
    \/ \E current_slot \in Slots : ValidateFresh(current_slot)
    \/ \E current_slot \in Slots : TryGet(current_slot)
    \/ \E current_slot \in Slots, w \in Values : TryGetMut(current_slot, w)
    \/ \E current_slot \in Slots, description \in Descriptions : Expect(current_slot, description)
    \/ \E current_slot \in Slots, description \in Descriptions, w \in Values : ExpectMut(current_slot, description, w)
    \/ GetStale
    \/ \E w \in Values : GetStaleMut(w)
    \/ \E value \in Values, current_slot \in Slots : RefreshAs(value, current_slot)
    \/ Invalidate
    \/ LastUpdated
    \/ \E current_slot \in Slots : Refresh(current_slot)
    \/ \E additional_slots \in Slots : RefreshAdditional(additional_slots)
    \/ \E current_slot \in Slots : RefreshTo(current_slot)

Spec == Init /\ [][Next]_vars

\* ------------------------------------------------------------------------
\* The layout computation, for every value type
\* ------------------------------------------------------------------------

LayoutInit ==
    /\ layout \in {LayoutStart(T) : T \in ValueTypes}
    /\ cache = zeroed
    /\ TTL = 0
    /\ overflow_checks = FALSE
    /\ aborted = FALSE
    /\ call = [op |-> "zeroed", arg |-> <<>>, pre |-> zeroed, ret |-> Ok(<<>>)]
    /\ refreshed_value = 0
    /\ written_value = 0
    /\ pending_invalidate = FALSE
    /\ expected_last_updated = 0

PlaceNextField ==
    /\ ~layout.done
    /\ layout.placed < Len(CacheFields(layout.T))
    /\ layout' = PlaceField(layout)
    /\ UNCHANGED <<cache, TTL, overflow_checks, aborted, call, refreshed_value, written_value,
                   pending_invalidate, expected_last_updated>>

FinishStruct ==
    /\ ~layout.done
    /\ layout.placed = Len(CacheFields(layout.T))
    /\ layout' = FinishLayout(layout)
    /\ UNCHANGED <<cache, TTL, overflow_checks, aborted, call, refreshed_value, written_value,
                   pending_invalidate, expected_last_updated>>

LayoutNext == PlaceNextField \/ FinishStruct

LayoutSpec == LayoutInit /\ [][LayoutNext]_vars

\* ------------------------------------------------------------------------
\* Shape of the state
\* ------------------------------------------------------------------------

TypeOK ==
    /\ cache.value \in Values
    /\ cache.last_updated \in Slots
    /\ cache.invalidated \in 0 .. 255
    /\ TTL \in TTLs
    /\ overflow_checks \in BOOLEAN
    /\ aborted \in BOOLEAN
    /\ refreshed_value \in Values
    /\ written_value \in Values
    /\ pending_invalidate \in BOOLEAN
    /\ expected_last_updated \in 0 .. U64Modulus
    /\ layout.done \in BOOLEAN


\* ------------------------------------------------------------------------
\* Properties
\* ------------------------------------------------------------------------

\* The slot argument of a recorded call that takes one.
SlotArg(c) == IF c.op \in {"new", "refresh_as"} THEN c.arg[2] ELSE c.arg[1]

CheckedGetters == {"try_get", "try_get_mut", "expect", "expect_mut"}

MutGetters == {"try_get_mut", "expect_mut", "get_stale_mut"}

\* Freshness as the data model defines it, on unbounded integers.
Fresh(c, ttl, t) == t >= c.last_updated /\ t - c.last_updated <= ttl /\ c.invalidated = 0

\* C1: validate_fresh(t) succeeds if and only if t >= last_updated,
\* t - last_updated <= TTL and invalidated = 0; in every other case it
\* returns one of the three errors.
C1_ValidateFreshIff ==
    /\ \A t \in Slots :
          LET r == validate_fresh(cache, TTL, t)
          IN  /\ (r.kind = "Ok") <=> Fresh(cache, TTL, t)
              /\ r.kind \in {"Ok", "TooNew", "Expired", "Invalidated"}
    /\ call.op = "validate_fresh" =>
          /\ (call.ret = Ok(<<>>)) <=> Fresh(call.pre, TTL, call.arg[1])
          /\ call.ret.kind \in {"Ok", "TooNew", "Expired", "Invalidated"}

\* A validate_fresh call has succeeded on a cache that was refreshed earlier than the query.
C1_Witness ==
    /\ call.op = "validate_fresh"
    /\ call.ret.kind = "Ok"
    /\ call.arg[1] > call.pre.last_updated

\* C2: the checked accessors try_get, try_get_mut, expect and expect_mut
\* yield the stored value exactly when validate_fresh succeeds at the same
\* slot; otherwise try_get / try_get_mut return the error validate_fresh
\* reports, expect / expect_mut panic, and the cache is left unchanged.
C2_StaleReadNeverSilent ==
    call.op \in CheckedGetters =>
        LET vf == validate_fresh(call.pre, TTL, call.arg[1])
        IN  IF vf.kind = "Ok"
            THEN /\ call.ret = Ok(<<call.pre.value>>)
                 /\ ~aborted
            ELSE /\ call.ret.kind # "Ok"
                 /\ call.ret.val = <<>>
                 /\ call.op \in {"try_get", "try_get_mut"} => call.ret = vf /\ ~aborted
                 /\ call.op \in {"expect", "expect_mut"} =>
                        /\ aborted
                        /\ call.ret.kind = "Panic"
                        /\ call.ret.msg[2] = vf.kind
                 /\ cache = call.pre

\* A checked read of an invalidated cache inside its TTL window was refused.
C2_Witness ==
    /\ call.op = "try_get"
    /\ call.ret.kind = "Invalidated"
    /\ cache = call.pre

\* C3: validate_fresh reports the first applicable failure in the order
\* TooNew, Expired, Invalidated: TooNew whenever t < last_updated, Expired
\* whenever t - last_updated > TTL even if the flag is set, and Invalidated
\* only for t in [last_updated, last_updated + TTL] with the flag nonzero.
C3_FailureOrder ==
    /\ \A t \in Slots :
          LET k == validate_fresh(cache, TTL, t).kind
          IN  /\ t < cache.last_updated => k = "TooNew"
              /\ (t >= cache.last_updated /\ t - cache.last_updated > TTL) => k = "Expired"
              /\ (k = "Invalidated") <=>
                     /\ cache.last_updated <= t
                     /\ t <= cache.last_updated + TTL
                     /\ cache.invalidated # 0
    /\ call.op = "validate_fresh" =>
          LET t == call.arg[1]
              k == call.ret.kind
          IN  /\ t < call.pre.last_updated => k = "TooNew"
              /\ (t >= call.pre.last_updated /\ t - call.pre.last_updated > TTL) => k = "Expired"
              /\ (k = "Invalidated") <=>
                     /\ call.pre.last_updated <= t
                     /\ t <= call.pre.last_updated + TTL
                     /\ call.pre.invalidated # 0

\* validate_fresh answered Expired on a cache that was also invalidated.
C3_Witness ==
    /\ call.op = "validate_fresh"
    /\ call.ret.kind = "Expired"
    /\ call.pre.invalidated # 0

\* C4 as stated: after invalidate() with no later refresh, validate_fresh(t)
\* fails with Invalidated for every t >= last_updated.
C4_AsStated ==
    pending_invalidate =>
        \A t \in Slots :
            t >= cache.last_updated => validate_fresh(cache, TTL, t).kind = "Invalidated"

\* C4 (amended): after invalidate() with no later refresh, validate_fresh(t)
\* fails for every t >= last_updated: with Invalidated for every t in
\* [last_updated, last_updated + TTL] and with Expired for every
\* t > last_updated + TTL.
C4_InvalidatedWithinWindow ==
    pending_invalidate =>
        \A t \in Slots :
            LET k == validate_fresh(cache, TTL, t).kind
            IN  /\ (cache.last_updated <= t /\ t <= cache.last_updated + TTL) => k = "Invalidated"
                /\ t > cache.last_updated + TTL => k = "Expired"

\* An invalidated cache was queried inside its TTL window and answered Invalidated.
C4_Witness ==
    /\ pending_invalidate
    /\ call.op = "validate_fresh"
    /\ call.ret.kind = "Invalidated"
    /\ call.arg[1] <= cache.last_updated + TTL

\* C5 as stated: get_stale() / get_stale_mut() return the value passed to the
\* most recent refresh_as (or to new), also after the payload was edited
\* through a mutable view; refresh_as is the only operation that changes the
\* stored value.
C5_AsStated ==
    /\ cache.value = refreshed_value
    /\ call.op \in {"get_stale", "get_stale_mut"} => call.ret = Ok(<<refreshed_value>>)
    /\ cache.value # call.pre.value => call.op = "refresh_as"

\* C5 (amended): get_stale() / get_stale_mut() never fail and return the
\* value most recently stored, which is the value passed to the most recent
\* new or refresh_as or, if later, the value the caller wrote through a
\* mutable view from try_get_mut, expect_mut or get_stale_mut; of the
\* cache's own methods refresh_as is the only one that changes the value.
C5_GetStaleReturnsLastStored ==
    /\ cache.value = written_value
    /\ get_stale(cache) = Ok(<<written_value>>)
    /\ get_stale_mut(cache) = Ok(<<written_value>>)
    /\ call.op = "get_stale" => call.ret = Ok(<<written_value>>)
    /\ call.op = "get_stale_mut" => call.ret = Ok(<<call.pre.value>>) /\ cache.value = call.arg[1]
    /\ cache.value # call.pre.value => call.op \in {"refresh_as"} \cup MutGetters
    /\ call.op \notin MutGetters => (cache.value # call.pre.value => call.op = "refresh_as")
    /\ call.op = "refresh_as" => cache.value = call.arg[1]

\* get_stale returned a value that was written through a mutable view and
\* differs from the value of the last refresh_as / new.
C5_Witness ==
    /\ call.op = "get_stale"
    /\ call.ret.val = <<written_value>>
    /\ written_value # refreshed_value

\* C6: any refresh clears a prior invalidation and restarts the validity
\* window: after refresh_as(v, t), refresh(t) or refresh_to(t) the cache is
\* fresh at every t' with t <= t' <= t + TTL and Expired at every
\* t' > t + TTL (with TTL = 100: new(5, 1000); invalidate();
\* refresh_to(1050) is Ok at 1050 and Expired at 1151).
C6_RefreshRestartsWindow ==
    /\ call.op \in {"refresh_as", "refresh", "refresh_to"} =>
          LET t == SlotArg(call)
          IN  \A t2 \in Slots :
                  LET k == validate_fresh(cache, TTL, t2).kind
                  IN  /\ (t <= t2 /\ t2 <= t + TTL) => k = "Ok"
                      /\ t2 > t + TTL => k = "Expired"
    /\ LET c == refresh_to(invalidate(new(5, 1000)), 1050)
       IN  /\ validate_fresh(invalidate(new(5, 1000)), 100, 1000).kind = "Invalidated"
           /\ validate_fresh(c, 100, 1050).kind = "Ok"
           /\ validate_fresh(c, 100, 1151).kind = "Expired"

\* refresh_to was applied to a cache that was both invalidated and expired
\* at the new slot.
C6_Witness ==
    /\ call.op = "refresh_to"
    /\ call.pre.invalidated # 0
    /\ call.arg[1] > call.pre.last_updated + TTL
    /\ call.arg[1] + TTL < U64Modulus - 1

\* C7: a cache built by new(value, t0) has invalidated = 0 and
\* last_updated = t0, and validate_fresh(t) on it is TooNew for t < t0, Ok
\* for t0 <= t <= t0 + TTL and Expired for t > t0 + TTL.
C7_NewIsFreshForTTL ==
    call.op = "new" =>
        LET value == call.arg[1]
            t0 == call.arg[2]
        IN  /\ cache.value = value
            /\ cache.invalidated = 0
            /\ cache.last_updated = t0
            /\ \A t \in Slots :
                   LET k == validate_fresh(cache, TTL, t).kind
                   IN  /\ t < t0 => k = "TooNew"
                       /\ (t0 <= t /\ t <= t0 + TTL) => k = "Ok"
                       /\ t > t0 + TTL => k = "Expired"

\* A freshly constructed cache with slots before, inside and after its window.
C7_Witness ==
    /\ call.op = "new"
    /\ cache.last_updated > 0
    /\ cache.last_updated + TTL < U64Modulus - 1

C9_MutableViewDoesNotRefresh ==
    call.op \in MutGetters =>
        /\ cache.last_updated = call.pre.last_updated
        /\ cache.invalidated = call.pre.invalidated
        /\ \A t \in Slots : validate_fresh(cache, TTL, t) = validate_fresh(call.pre, TTL, t)

\* The payload was changed through the view returned by try_get_mut.
C9_Witness ==
    /\ call.op = "try_get_mut"
    /\ call.ret.kind = "Ok"
    /\ cache.value # call.pre.value

\* C10: invalidate() sets the flag and leaves value and last_updated
\* unchanged, and after invalidate() every validate_fresh / try_get /
\* try_get_mut (and expect / expect_mut) call at any slot fails until the
\* next refresh_as, refresh, refresh_to or refresh_additional; reads,
\* payload edits and repeated invalidate() calls do not make the cache fresh.
C10_InvalidateIrreversible ==
    /\ call.op = "invalidate" =>
          /\ cache.invalidated # 0
          /\ cache.value = call.pre.value
          /\ cache.last_updated = call.pre.last_updated
          /\ cache.reserved = call.pre.reserved
    /\ pending_invalidate =>
          /\ \A t \in Slots :
                /\ validate_fresh(cache, TTL, t).kind # "Ok"
                /\ try_get(cache, TTL, t).kind # "Ok"
                /\ try_get_mut(cache, TTL, t).kind # "Ok"
          /\ call.op \in CheckedGetters \cup {"validate_fresh"} => call.ret.kind # "Ok"
          /\ call.op \notin {"refresh_as", "refresh", "refresh_to", "refresh_additional"}
    /\ (call.pre.invalidated # 0 /\ call.op \notin {"refresh_as", "refresh", "refresh_to", "refresh_additional", "new"})
          => cache.invalidated # 0

\* After invalidate() the payload was edited through get_stale_mut and the
\* cache is still invalidated.
C10_Witness ==
    /\ pending_invalidate
    /\ call.op = "get_stale_mut"
    /\ cache.value # call.pre.value
    /\ cache.last_updated + TTL < U64Modulus

\* C11: a zero-initialised cache (last_updated = 0, invalidated = 0, never
\* constructed with new) is fresh at current_time only if
\* current_time <= TTL: validate_fresh(t) is Ok for t <= TTL and Expired for
\* t > TTL, and never TooNew or Invalidated.
C11_ZeroedFreshUpToTTL ==
    /\ \A t \in Slots :
          LET k == validate_fresh(zeroed, TTL, t).kind
          IN  /\ t <= TTL => k = "Ok"
              /\ t > TTL => k = "Expired"
              /\ k \notin {"TooNew", "Invalidated"}
    /\ call.op = "zeroed" =>
          /\ cache = zeroed
          /\ \A t \in Slots :
                validate_fresh(cache, TTL, t).kind = IF t <= TTL THEN "Ok" ELSE "Expired"
    /\ (call.op \in {"validate_fresh", "try_get"} /\ call.pre = zeroed) =>
          call.ret.kind = IF call.arg[1] <= TTL THEN "Ok" ELSE "Expired"

\* The cache holds the all-zero pattern and a query past TTL was answered Expired.
C11_Witness ==
    /\ call.op = "validate_fresh"
    /\ call.pre = zeroed
    /\ cache = zeroed
    /\ call.arg[1] > TTL
    /\ call.ret.kind = "Expired"

\* C12: round trip: from any cache state, refresh_as(v, t) followed
\* immediately by try_get(t) succeeds and returns v.
C12_RefreshAsTryGetRoundTrip ==
    [][(call.op = "refresh_as" /\ call'.op = "try_get" /\ call'.arg = <<call.arg[2]>>)
          => (call'.pre = cache /\ call'.ret = Ok(<<call.arg[1]>>))]_vars

\* refresh_as has replaced the payload of an invalidated cache with a
\* different value at a different slot; try_get at that slot is the next call.
C12_Witness ==
    /\ call.op = "refresh_as"
    /\ ~aborted
    /\ call.pre.invalidated # 0
    /\ call.pre.value # call.arg[1]
    /\ call.pre.last_updated # call.arg[2]
    /\ try_get(cache, TTL, call.arg[2]).kind = "Ok"

\* C13: refresh(t) and refresh_to(t) are identical in behaviour: from every
\* cache state and for every t both produce invalidated = 0,
\* last_updated = t and an untouched value.
C13_RefreshEqualsRefreshTo ==
    /\ \A t \in Slots :
          /\ refresh(cache, t) = refresh_to(cache, t)
          /\ refresh(cache, t) = [cache EXCEPT !.invalidated = 0, !.last_updated = t]
    /\ call.op = "refresh" => cache = refresh_to(call.pre, call.arg[1])
    /\ call.op = "refresh_to" => cache = refresh(call.pre, call.arg[1])
    /\ call.op \in {"refresh", "refresh_to"} =>
          /\ cache.invalidated = 0
          /\ cache.last_updated = call.arg[1]
          /\ cache.value = call.pre.value

\* refresh moved the timestamp of an invalidated cache.
C13_Witness ==
    /\ call.op = "refresh"
    /\ call.pre.invalidated # 0
    /\ call.arg[1] # call.pre.last_updated

\* C14: idempotence: calling refresh_to(t) twice with the same t leaves the
\* state (value, last_updated, invalidated) identical to calling it once.
C14_RefreshToIdempotent ==
    /\ \A t \in Slots : refresh_to(refresh_to(cache, t), t) = refresh_to(cache, t)
    /\ call.op = "refresh_to" => refresh_to(cache, call.arg[1]) = cache

\* refresh_to with a nonzero slot changed both the flag and the timestamp.
C14_Witness ==
    /\ call.op = "refresh_to"
    /\ call.pre.invalidated # 0
    /\ call.arg[1] > 0
    /\ call.arg[1] # call.pre.last_updated

\* C15: in every state reachable from new() by any sequence of cache
\* operations, the reserved padding bytes are all zero and the invalidated
\* flag is exactly 0 or 1.
C15_PaddingZeroFlagBoolean ==
    /\ cache.reserved = <<0, 0, 0, 0, 0, 0, 0>>
    /\ cache.invalidated \in {0, 1}
    /\ call.pre.reserved = <<0, 0, 0, 0, 0, 0, 0>>
    /\ call.pre.invalidated \in {0, 1}

\* invalidate() was called on a cache that was already invalidated.
C15_Witness ==
    /\ call.op = "invalidate"
    /\ call.pre.invalidated = 1
    /\ cache.invalidated = 1

\* C16 as stated: for every value type T the #[repr(C)] struct occupies
\* exactly size_of(T) + 16 bytes, with no compiler-inserted padding between
\* or after the fields.
C16_AsStated ==
    layout.done =>
        /\ layout.size = layout.T.size + 16
        /\ layout.padding = 0

\* The three failure conditions of validate_fresh at slot t on cache c.
FailureConditions(c, ttl, t) ==
    {i \in {1, 2, 3} :
        \/ i = 1 /\ t < c.last_updated
        \/ i = 2 /\ t >= c.last_updated /\ t - c.last_updated > ttl
        \/ i = 3 /\ c.invalidated # 0}

\* C17 as stated: for every cache state and query slot t at most one of
\* (t < last_updated), (t >= last_updated and t - last_updated > TTL),
\* (invalidated != 0) holds.
C17_AsStated ==
    \A t \in Slots : Cardinality(FailureConditions(cache, TTL, t)) <= 1

\* C17 (amended): the two age conditions (t < last_updated) and
\* (t >= last_updated and t - last_updated > TTL) are mutually exclusive,
\* while invalidated != 0 may hold together with either of them;
\* validate_fresh then reports the age failure, and reports Invalidated only
\* when neither age condition holds.
C17_AgeConditionsExclusive ==
    \A t \in Slots :
        LET f == FailureConditions(cache, TTL, t)
            k == validate_fresh(cache, TTL, t).kind
        IN  /\ ~({1, 2} \subseteq f)
            /\ (k = "TooNew") <=> 1 \in f
            /\ (k = "Expired") <=> 2 \in f
            /\ (k = "Invalidated") <=> (3 \in f /\ 1 \notin f /\ 2 \notin f)
            /\ (k = "Ok") <=> f = {}

\* validate_fresh answered TooNew on a cache that was also invalidated.
C17_Witness ==
    /\ call.op = "validate_fresh"
    /\ call.ret.kind = "TooNew"
    /\ call.pre.invalidated # 0
    /\ Cardinality(FailureConditions(call.pre, TTL, call.arg[1])) = 2

\* C18 as stated: last_updated() equals the timestamp given to the most
\* recent absolute set (new, refresh_as, refresh, refresh_to) plus the sum of
\* the deltas of all refresh_additional calls made since; reads and
\* invalidate() never change it.
C18_AsStated ==
    /\ cache.last_updated = expected_last_updated
    /\ last_updated(cache) = expected_last_updated
    /\ call.op = "last_updated" => call.ret = Ok(<<expected_last_updated>>)
    /\ call.op \in {"validate_fresh", "try_get", "try_get_mut", "expect", "expect_mut",
                    "get_stale", "get_stale_mut", "last_updated", "invalidate"}
          => cache.last_updated = call.pre.last_updated

\* C19: validate_fresh never underflows or overflows: the subtraction
\* current_slot - last_updated is evaluated only when
\* current_slot >= last_updated, also for last_updated near the top of the
\* word where last_updated + TTL does not fit, and the result agrees with the
\* definition of freshness on unbounded integers.
C19_NoUnderflowAgreesWithIntegers ==
    /\ \A t \in Slots :
          LET k == validate_fresh(cache, TTL, t).kind
          IN  /\ \A p \in validate_fresh_subtractions(cache, TTL, t) :
                    /\ p[1] >= p[2]
                    /\ U64Sub(p[1], p[2]) = p[1] - p[2]
              /\ k = IF t < cache.last_updated THEN "TooNew"
                     ELSE IF t - cache.last_updated > TTL THEN "Expired"
                     ELSE IF cache.invalidated # 0 THEN "Invalidated"
                     ELSE "Ok"
              /\ (k = "Ok") <=> Fresh(cache, TTL, t)
    /\ call.op = "validate_fresh" =>
          LET t == call.arg[1]
          IN  /\ \A p \in validate_fresh_subtractions(call.pre, TTL, t) : p[1] >= p[2]
              /\ (call.ret.kind = "Ok") <=> Fresh(call.pre, TTL, t)
              /\ (call.ret.kind = "Expired") <=>
                     (t >= call.pre.last_updated /\ t > call.pre.last_updated + TTL)

\* validate_fresh succeeded at the top of the word on a cache whose
\* last_updated + TTL does not fit the word.
C19_Witness ==
    /\ call.op = "validate_fresh"
    /\ call.pre.last_updated + TTL >= U64Modulus
    /\ call.arg[1] = U64Modulus - 1
    /\ call.ret.kind = "Ok"

\* C20 as stated: a refresh_additional call that completes leaves
\* last_updated >= its previous value; last_updated + delta is never wrapped
\* into a smaller timestamp.
C20_AsStated ==
    (call.op = "refresh_additional" /\ call.ret.kind = "Ok") =>
        /\ cache.last_updated >= call.pre.last_updated
        /\ cache.last_updated = call.pre.last_updated + call.arg[1]

=============================================================================
